---- MODULE Spec2Model ----
(***************************************************************************)
(* A model of mcp-client/client.py: the MCPClient object (sessions,        *)
(* tool_mapping, exit_stack), its handlers initialize_sessions /           *)
(* initialize_sessions_sse, chat_loop, process_query and cleanup, and the   *)
(* tool providers, the inference service and the user's input lines as its *)
(* environment.                                                            *)
(*                                                                         *)
(* One asyncio task runs the client, so one handler runs at a time; pc is  *)
(* the position of that task.  Every await whose outcome the environment   *)
(* decides (a provider answering, failing, the model replying) is one      *)
(* step.  TLC strings are ASCII: the client's Chinese message literals are *)
(* written here as English text of the same structure.                     *)
(***************************************************************************)
EXTENDS Integers, Sequences, FiniteSets, TLC

\* ------------------------------------------------------------------ bounds
NumServers == 2         \* len(server_sources)
MaxInitRuns == 2        \* calls of initialize_sessions* explored on one client
MaxTurns == 2           \* tool-execution turns explored within one query
MaxCleanups == 2        \* calls of cleanup explored

Servers == 0 .. (NumServers - 1)

\* ------------------------------------------------------------ environment
\* Tool lists a provider may advertise (list_tools): names are unique within
\* one provider, as the protocol requires.
ToolLists == { <<"get_weather">>, <<"get_weather", "get_alerts">> }

Range(s) == { s[k] : k \in DOMAIN s }

\* ------------------------------------------------------- pure functions
\* server_id = f"server{i}"
ServerId(i) == "server" \o ToString(i)

PrefixedName_NoServer(server_id, name) == name

\* prefixed_name = f"{server_id}_{tool.name}"
PrefixedName(server_id, name) == server_id \o "_" \o name

\* The empty dict {} of __init__.
EmptyDict == [k \in {} |-> {}]

\* d[key] = value
DictSet(d, key, value) ==
    [k \in (DOMAIN d) \cup {key} |-> IF k = key THEN value ELSE d[k]]

\* for tool in response.tools: self.tool_mapping[prefixed_name] = (session, tool.name)
RECURSIVE RegisterTools(_, _, _, _)
RegisterTools(mapping, server_id, session, toolList) ==
    IF toolList = <<>> THEN mapping
    ELSE RegisterTools(
             DictSet(mapping, PrefixedName(server_id, Head(toolList)),
                     <<session, Head(toolList)>>),
             server_id, session, Tail(toolList))

Reverse_Fifo(s) == s

\* The order in which AsyncExitStack exits what it entered: last in, first out.
Reverse(s) == [k \in 1 .. Len(s) |-> s[Len(s) + 1 - k]]


\* ------------------------------------------------- process_query: functions
\* An optional value (None or a value) is <<>> or <<value>>.
\* json.loads(tool_call.function.arguments): the dict, or JSONDecodeError (<<>>).
JsonLoads(text) ==
    CASE text = "{\"city\":\"FZ\"}" -> << [city |-> "FZ"] >>
      [] text = "{\"city\": \"FZ\"}" -> << [city |-> "FZ"] >>
      [] OTHER -> <<>>

\* json.dumps(tool_args)
JsonDumps(args) == "{\"city\": \"" \o args.city \o "\"}"

\* f"{tool_args}": the repr of the dict
DictRepr(args) == "{'city': '" \o args.city \o "'}"

\* str(result.content) of a CallToolResult whose content is one text item
StrContent(text) == "[TextContent(type='text', text='" \o text \o "', annotations=None)]"

ContentOrEmpty_None(content) == IF content = <<>> THEN "None" ELSE content[1]

\* message.content or ""
ContentOrEmpty(content) == IF content = <<>> THEN "" ELSE content[1]

\* if message.content:
Truthy(content) == content # <<>> /\ content[1] # ""

RECURSIVE Join_NoSeparator(_)
Join_NoSeparator(fragments) ==
    IF fragments = <<>> THEN "" ELSE fragments[1] \o Join_NoSeparator(Tail(fragments))

\* "\n".join(final_text)
RECURSIVE Join(_)
Join(fragments) ==
    IF fragments = <<>> THEN ""
    ELSE IF Len(fragments) = 1 THEN fragments[1]
    ELSE fragments[1] \o "\n" \o Join(Tail(fragments))

\* f"调用工具 {original_tool_name} 出错：{str(e)}"
ErrorText(original_tool_name, e) == "call tool " \o original_tool_name \o " failed: " \o e

\* f"[调用工具 {prefixed_name} 参数: {tool_args}]"
CallNote(prefixed_name, args) ==
    "[call tool " \o prefixed_name \o " args: " \o DictRepr(args) \o "]"

\* f"工具结果: {result.content}"
ResultNote(content) == "tool result: " \o StrContent(content)

\* f"工具 {prefixed_name} 未找到"
NotFoundNote(prefixed_name) == "tool " \o prefixed_name \o " not found"

\* What call_tool gave: a CallToolResult, or the dict built by the except branch.
CallToolResult(content) == [type |-> "CallToolResult", content |-> content]
ErrorDict(text) == [type |-> "dict", content |-> text]

\* result.content: the attribute of a CallToolResult; a dict has no such
\* attribute (AttributeError, <<>>).
ResultContent(result) ==
    IF result.type = "CallToolResult" THEN << result.content >> ELSE <<>>

\* The catalog of lines 112-124, in the order of self.sessions.items(): the
\* server ids were inserted in the order of their indices.  Of each entry the
\* name is kept; description and inputSchema are forwarded as they came.
RECURSIVE CatalogFrom(_, _, _)
CatalogFrom(i, sess, current) ==
    IF i >= NumServers THEN <<>>
    ELSE (IF ServerId(i) \in DOMAIN sess
          THEN [k \in 1 .. Len(current[sess[ServerId(i)].server]) |->
                   [type |-> "function",
                    name |-> PrefixedName(ServerId(i), current[sess[ServerId(i)].server][k])]]
          ELSE <<>>)
         \o CatalogFrom(i + 1, sess, current)

\* ------------------------------------------------------------ chat_loop
\* The lines input() may give.
Inputs == { " weather in FZ? ", "quit", " QUIT " }
\* input(...).strip(), on the lines above
Strip(line) ==
    CASE line = " weather in FZ? " -> "weather in FZ?"
      [] line = " QUIT " -> "QUIT"
      [] OTHER -> line

Lower_CaseSensitive(text) == text

\* query.lower(), on the stripped lines above
Lower(text) ==
    CASE text = "QUIT" -> "quit"
      [] text = "weather in FZ?" -> "weather in fz?"
      [] OTHER -> text

\* The values of chat_loop's query: the lines read, stripped.
Queries == { Strip(line) : line \in Inputs }

\* if query.lower() == "quit": line 97
IsQuit(query) == Lower(query) = "quit"

InitialMessages_WithHistory(query) ==
    << [role |-> "assistant", content |-> "an earlier answer"],
       [role |-> "user", content |-> query] >>

\* messages = [{"role": "user", "content": query}]: line 110
InitialMessages(query) == << [role |-> "user", content |-> query] >>

\* ------------------------------------------------- the inference service
Contents == { <<>>, << "" >>, << "hello" >> }
ReqA == [id |-> "call_1", name |-> "server0_get_weather", arguments |-> "{\"city\":\"FZ\"}"]
ReqB == [id |-> "call_2", name |-> "server1_get_weather", arguments |-> "{\"city\":\"FZ\"}"]
ReqUnknown == [id |-> "call_3", name |-> "get_weather", arguments |-> "{\"city\":\"FZ\"}"]
ReqBadArgs == [id |-> "call_4", name |-> "server0_get_alerts", arguments |-> "{city"]
ToolCallLists ==
    { <<>>, <<ReqA>>, <<ReqUnknown>>, <<ReqA, ReqB>>, <<ReqUnknown, ReqA>>, <<ReqBadArgs>> }

\* ------------------------------------------------------------------ state
VARIABLES
    tools,          \* provider i's currently advertised tool list
    sessions,       \* self.sessions: server_id -> session
    tool_mapping,   \* self.tool_mapping: prefixed_name -> (session, original name)
    exit_stack,     \* self.exit_stack: the entered contexts, oldest first
    pc,             \* position of the client task
    transport,      \* "stdio" (initialize_sessions) or "sse" (initialize_sessions_sse)
    loop_i,         \* i of the running initialization loop
    nextHandle,     \* identity given to the next context object created
    runs,           \* initialization calls started
    completed,      \* initialization calls that returned normally
    advertised,     \* what list_tools answered to the running/last initialization
    acquired,       \* every context entered, in order
    released,       \* every context exited, in order
    cleanups,       \* calls of cleanup made
    cleanupAcquired,\* acquired, as it was when the last cleanup ran
    cleanupReleased,\* what the last cleanup call exited, in order
    cleanupRaised,  \* whether the last cleanup call raised
    messages,       \* process_query: messages
    available_tools,\* process_query: available_tools
    final_text,     \* process_query: final_text
    message,        \* process_query: message, the model's last response
    call_i,         \* process_query: position of the for loop in message.tool_calls
    outcome,        \* how the last process_query ended: returned value or exception
    inferences,     \* inference calls made by the running query
    sent,           \* the messages given to the last inference call
    callLog,        \* call_tool invocations of the running query, in order
    turnCalls,      \* call_tool invocations since the last inference call
    notFound,       \* the requests the running query found unregistered: turn, name
    turns,          \* tool-execution turns of the running query
    inferenceFailed,\* an inference call of the running query has raised
    emitted,        \* the running query's responses and processed requests, in order
    input,          \* chat_loop: the line read and being handled, <<>> when none
    earlier         \* chat_loop has handled a query before the line in input

initVars == <<sessions, tool_mapping, exit_stack, transport, loop_i, nextHandle,
              runs, completed, advertised, acquired>>
cleanupVars == <<released, cleanups, cleanupAcquired, cleanupReleased, cleanupRaised>>
queryVars == <<messages, available_tools, final_text, message, call_i, outcome,
               inferences, sent, callLog, turnCalls, notFound, turns, inferenceFailed,
               emitted>>
chatVars == <<input, earlier>>
vars == <<tools, pc, initVars, cleanupVars, queryVars, chatVars>>

\* No query is running: process_query's locals do not exist.
NoMessage == [content |-> <<>>, tool_calls |-> <<>>]
NoOutcome == [kind |-> "none"]

QueryReset ==
    /\ messages = <<>>
    /\ available_tools = <<>>
    /\ final_text = <<>>
    /\ message = NoMessage
    /\ call_i = 0
    /\ outcome = NoOutcome
    /\ inferences = 0
    /\ sent = <<>>
    /\ callLog = <<>>
    /\ turnCalls = 0
    /\ notFound = <<>>
    /\ turns = 0
    /\ inferenceFailed = FALSE
    /\ emitted = <<>>

\* MCPClient.__init__
Init ==
    /\ tools \in [Servers -> ToolLists]
    /\ sessions = EmptyDict
    /\ tool_mapping = EmptyDict
    /\ exit_stack = <<>>
    /\ pc = "new"
    /\ transport = "none"
    /\ loop_i = 0
    /\ nextHandle = 1
    /\ runs = 0
    /\ completed = 0
    /\ advertised = EmptyDict
    /\ acquired = <<>>
    /\ released = <<>>
    /\ cleanups = 0
    /\ cleanupAcquired = <<>>
    /\ cleanupReleased = <<>>
    /\ cleanupRaised = FALSE
    /\ QueryReset
    /\ input = <<>>
    /\ earlier = FALSE

\* ------------------------------------------------------------ initialization
\* The context objects of one loop iteration.
Transport(i, h) == [kind |-> "transport", server |-> i, handle |-> h]
Session(i, h) == [kind |-> "session", server |-> i, handle |-> h]

\* A caller enters initialize_sessions (kind "stdio") or initialize_sessions_sse
\* (kind "sse"): main does so once on a new client; the class lets a caller
\* do so again on a client that is between handlers.
StartInit(kind) ==
    /\ pc \in {"new", "ready"}
    /\ runs < MaxInitRuns
    /\ pc' = "init"
    /\ transport' = kind
    /\ loop_i' = 0
    /\ runs' = runs + 1
    /\ advertised' = EmptyDict
    /\ UNCHANGED <<tools, sessions, tool_mapping, exit_stack, nextHandle, completed,
                   acquired, cleanupVars, queryVars, chatVars>>

\* The loop is over: the handler returns.
InitReturn ==
    /\ pc = "init"
    /\ loop_i = NumServers
    /\ pc' = "ready"
    /\ completed' = completed + 1
    /\ transport' = "none"
    /\ UNCHANGED <<tools, sessions, tool_mapping, exit_stack, loop_i,
                   nextHandle, runs, advertised, acquired, cleanupVars, queryVars, chatVars>>

\* One iteration of the loop, for server loop_i.  how names the await that
\* raises, if one does; the exception then leaves the handler.
InitOutcomes == {"ok", "connect_fails", "session_fails", "handshake_fails", "list_tools_fails"}

InitServer(how) ==
    /\ pc = "init"
    /\ loop_i < NumServers
    /\ LET i == loop_i
           server_id == ServerId(i)
           conn == Transport(i, nextHandle)
           session == Session(i, nextHandle + 1)
           entered == CASE how = "connect_fails" -> <<>>
                        [] how = "session_fails" -> <<conn>>
                        [] OTHER -> <<conn, session>>
           stored == how \in {"ok", "list_tools_fails"}
       IN /\ exit_stack' = exit_stack \o entered
          /\ acquired' = acquired \o entered
          /\ nextHandle' = nextHandle + Len(entered)
          /\ sessions' = IF stored THEN DictSet(sessions, server_id, session) ELSE sessions
          /\ IF how = "ok"
             THEN /\ tool_mapping' = RegisterTools(tool_mapping, server_id, session, tools[i])
                  /\ advertised' = DictSet(advertised, i, tools[i])
                  /\ loop_i' = loop_i + 1
                  /\ pc' = "init"
                  /\ UNCHANGED transport
             ELSE /\ pc' = "init_failed"
                  /\ transport' = "none"
                  /\ UNCHANGED <<tool_mapping, advertised, loop_i>>
    /\ UNCHANGED <<tools, runs, completed, cleanupVars, queryVars, chatVars>>

\* ------------------------------------------------------------------ cleanup
\* AsyncExitStack.aclose(): exits every entered context, last entered first,
\* and leaves the stack empty; an exit that raises does not stop the others,
\* the exception is raised once all have run.
Cleanup_KeepStack(stack) == stack

RemainingAfterClose(stack) == <<>>

Cleanup(anExitRaises) ==
    /\ pc \in {"new", "ready", "init_failed", "chat_ended", "closed"}
    /\ cleanups < MaxCleanups
    /\ anExitRaises => exit_stack # <<>>
    /\ released' = released \o Reverse(exit_stack)
    /\ cleanupReleased' = Reverse(exit_stack)
    /\ cleanupAcquired' = acquired
    /\ cleanupRaised' = anExitRaises
    /\ exit_stack' = RemainingAfterClose(exit_stack)
    /\ cleanups' = cleanups + 1
    /\ pc' = "closed"
    /\ UNCHANGED <<tools, sessions, tool_mapping, transport, loop_i, nextHandle, runs,
                   completed, advertised, acquired, queryVars, chatVars>>


\* ------------------------------------------------------------ process_query
\* chat_loop reads a line that is not quit and calls process_query(query),
\* lines 96-99 and 110-124.  listOk: every session.list_tools() answers;
\* otherwise the exception leaves process_query.
StartQuery(line, listOk) ==
    /\ pc = "ready"
    /\ ~IsQuit(Strip(line))
    /\ Strip(line) \in Queries
    /\ (~listOk) => sessions # EmptyDict
    /\ input' = << line >>
    /\ messages' = InitialMessages(Strip(line))
    /\ IF listOk
       THEN /\ available_tools' = CatalogFrom(0, sessions, tools)
            /\ pc' = "awaiting_model"
            /\ UNCHANGED outcome
       ELSE /\ pc' = "raised"
            /\ outcome' = [kind |-> "raised", exception |-> "list_tools"]
            /\ UNCHANGED available_tools
    /\ UNCHANGED <<tools, initVars, cleanupVars, final_text, message, call_i,
                   inferences, sent, callLog, turnCalls, notFound, turns, inferenceFailed,
                   emitted, earlier>>

\* chat_loop reads quit and returns, lines 96-98; main goes on to its finally.
ChatLoopQuit(line) ==
    /\ pc = "ready"
    /\ IsQuit(Strip(line))
    /\ input' = << line >>
    /\ pc' = "chat_ended"
    /\ UNCHANGED <<tools, initVars, cleanupVars, queryVars, earlier>>

\* The text a response carries, for the record of what was emitted: its
\* content when that is a non-empty string, otherwise none.
TextOf(content) == IF content = <<>> \/ content = << "" >> THEN <<>> ELSE content

\* self.client.chat.completions.create(...) answers: lines 126-133 for the
\* first call of a query, lines 165-172 for one after a tool-execution turn.
\* To bound the responses tried, the empty string is a content of the
\* responses without tool calls only; with tool calls the lines that read
\* content treat it as they treat None.
Inference(content, tool_calls) ==
    /\ pc = "awaiting_model"
    /\ tool_calls # <<>> => turns < MaxTurns
    /\ content = << "" >> => tool_calls = <<>>
    /\ message' = [content |-> content, tool_calls |-> tool_calls]
    /\ final_text' = IF inferences = 0 THEN << ContentOrEmpty(content) >>
                     ELSE IF Truthy(content) THEN Append(final_text, content[1])
                     ELSE final_text
    /\ inferences' = inferences + 1
    /\ sent' = messages
    /\ turnCalls' = 0
    /\ call_i' = 1
    /\ turns' = IF tool_calls # <<>> THEN turns + 1 ELSE turns
    /\ pc' = "loop"
    /\ emitted' = Append(emitted, [kind |-> "response", text |-> TextOf(content),
                                   tool_calls |-> tool_calls])
    /\ UNCHANGED <<tools, initVars, cleanupVars, messages, available_tools, outcome,
                   callLog, notFound, inferenceFailed, chatVars>>

AfterInferenceFailure_Swallowed == "loop"

\* Where an exception of the inference call takes the task: lines 126 and 165
\* stand in no try block, so it leaves process_query.
AfterInferenceFailure == "raised"

\* The inference call raises.
InferenceFails ==
    /\ pc = "awaiting_model"
    /\ pc' = AfterInferenceFailure
    /\ inferenceFailed' = TRUE
    /\ outcome' = [kind |-> "raised", exception |-> "inference"]
    /\ inferences' = inferences + 1
    /\ sent' = messages
    /\ UNCHANGED <<tools, initVars, cleanupVars, messages, available_tools, final_text,
                   message, call_i, callLog, turnCalls, notFound, turns, emitted, chatVars>>

\* The position after one request of the for loop: the next request, or the
\* inference call of line 165 after the last one.
AfterRequest == IF call_i = Len(message.tool_calls) THEN "awaiting_model" ELSE "loop"

\* The conversation records of one processed call: lines 150-160.
CallRecords_ToolOnly(tool_call, args, content) ==
    << [role |-> "tool", tool_call_id |-> tool_call.id, content |-> StrContent(content)] >>

CallRecords(tool_call, args, content) ==
    << [role |-> "assistant",
        tool_calls |-> << [id |-> tool_call.id, type |-> "function",
                           function |-> [name |-> tool_call.name,
                                         arguments |-> JsonDumps(args)]] >>],
       [role |-> "tool", tool_call_id |-> tool_call.id, content |-> StrContent(content)] >>

CalledName_Prefixed(entry, prefixed_name) == prefixed_name

\* session, original_tool_name = self.tool_mapping[prefixed_name]: the name
\* given to call_tool, lines 139 and 143
CalledName(entry, prefixed_name) == entry[2]

\* if prefixed_name in self.tool_mapping: line 138
Resolves(prefixed_name, mapping) == prefixed_name \in DOMAIN mapping

\* final_text after the else branch, lines 161-163
NotFoundText_Silent(text, prefixed_name) == text

NotFoundText(text, prefixed_name) == Append(text, NotFoundNote(prefixed_name))

\* One request of the for loop, lines 136-163.  raises: session.call_tool
\* raises instead of returning a result.
ProcessToolCall(raises) ==
    /\ pc = "loop"
    /\ message.tool_calls # <<>>
    /\ call_i <= Len(message.tool_calls)
    /\ LET tool_call == message.tool_calls[call_i]
           prefixed_name == tool_call.name
       IN IF Resolves(prefixed_name, tool_mapping)
          THEN LET entry == tool_mapping[prefixed_name]
                   session == entry[1]
                   original_tool_name == CalledName(entry, prefixed_name)
                   parsed == JsonLoads(tool_call.arguments)
               IN IF parsed = <<>>
                  THEN \* json.loads raises JSONDecodeError outside the try
                       /\ ~raises
                       /\ pc' = "raised"
                       /\ outcome' = [kind |-> "raised", exception |-> "JSONDecodeError"]
                       /\ UNCHANGED <<messages, final_text, call_i, callLog, turnCalls,
                                      notFound, emitted>>
                  ELSE LET tool_args == parsed[1]
                           result == IF raises
                                     THEN ErrorDict(ErrorText(original_tool_name, "boom"))
                                     ELSE CallToolResult("sunny")
                           content == ResultContent(result)
                       IN /\ callLog' = Append(callLog,
                                 [session |-> session, name |-> original_tool_name,
                                  args |-> tool_args, request |-> tool_call,
                                  raised |-> raises])
                          /\ turnCalls' = turnCalls + 1
                          /\ emitted' = Append(emitted,
                                 [kind |-> IF raises THEN "call_raised" ELSE "call",
                                  request |-> tool_call])
                          /\ UNCHANGED notFound
                          /\ IF content = <<>>
                             THEN \* line 148: result.content of a dict
                                  /\ pc' = "raised"
                                  /\ outcome' = [kind |-> "raised",
                                                 exception |-> "AttributeError"]
                                  /\ final_text' = Append(final_text,
                                         CallNote(prefixed_name, tool_args))
                                  /\ UNCHANGED <<messages, call_i>>
                             ELSE /\ final_text' = final_text \o
                                         << CallNote(prefixed_name, tool_args),
                                            ResultNote(content[1]) >>
                                  /\ messages' = messages \o
                                         CallRecords(tool_call, tool_args, content[1])
                                  /\ call_i' = call_i + 1
                                  /\ pc' = AfterRequest
                                  /\ UNCHANGED outcome
          ELSE /\ ~raises
               /\ final_text' = NotFoundText(final_text, prefixed_name)
               /\ notFound' = Append(notFound, [turn |-> turns, name |-> prefixed_name])
               /\ emitted' = Append(emitted, [kind |-> "not_found", request |-> tool_call])
               /\ call_i' = call_i + 1
               /\ pc' = AfterRequest
               /\ UNCHANGED <<messages, outcome, callLog, turnCalls>>
    /\ UNCHANGED <<tools, initVars, cleanupVars, available_tools, message, inferences,
                   sent, turns, inferenceFailed, chatVars>>

\* while message.tool_calls: is false; return "\n".join(final_text), line 173
Return ==
    /\ pc = "loop"
    /\ message.tool_calls = <<>>
    /\ pc' = "returned"
    /\ outcome' = [kind |-> "returned", value |-> Join(final_text)]
    /\ UNCHANGED <<tools, initVars, cleanupVars, messages, available_tools, final_text,
                   message, call_i, inferences, sent, callLog, turnCalls, notFound, turns,
                   inferenceFailed, emitted, chatVars>>

\* chat_loop, lines 99-102: the response is printed, or the exception is
\* caught and reported; process_query's locals are gone.
ChatLoopResumes ==
    /\ pc \in {"returned", "raised"}
    /\ pc' = "ready"
    /\ messages' = <<>>
    /\ available_tools' = <<>>
    /\ final_text' = <<>>
    /\ message' = NoMessage
    /\ call_i' = 0
    /\ outcome' = NoOutcome
    /\ inferences' = 0
    /\ sent' = <<>>
    /\ callLog' = <<>>
    /\ turnCalls' = 0
    /\ notFound' = <<>>
    /\ turns' = 0
    /\ inferenceFailed' = FALSE
    /\ emitted' = <<>>
    /\ input' = <<>>
    /\ earlier' = TRUE
    /\ UNCHANGED <<tools, initVars, cleanupVars>>

\* --------------------------------------------------------------- providers
\* A provider adds tools to the list it advertises: between two handlers of
\* the client, or during a query, between a tool-execution turn and the
\* inference call that follows it.  The client reads no tool list between the
\* start of a query and its end, so a change during a query is explored for
\* the first provider only.
ProviderAddsTools(i, list) ==
    /\ pc = "ready" \/ (pc = "awaiting_model" /\ inferences >= 1 /\ i = 0)
    /\ Len(tools[i]) < Len(list)
    /\ SubSeq(list, 1, Len(tools[i])) = tools[i]
    /\ tools' = [tools EXCEPT ![i] = list]
    /\ UNCHANGED <<pc, initVars, cleanupVars, queryVars, chatVars>>

Next ==
    \/ \E kind \in {"stdio", "sse"} : StartInit(kind)
    \/ \E how \in InitOutcomes : InitServer(how)
    \/ InitReturn
    \/ \E raises \in BOOLEAN : Cleanup(raises)
    \/ \E i \in Servers, list \in ToolLists : ProviderAddsTools(i, list)
    \/ \E line \in Inputs, listOk \in BOOLEAN : StartQuery(line, listOk)
    \/ \E line \in Inputs : ChatLoopQuit(line)
    \/ \E content \in Contents, tool_calls \in ToolCallLists : Inference(content, tool_calls)
    \/ InferenceFails
    \/ \E raises \in BOOLEAN : ProcessToolCall(raises)
    \/ Return
    \/ ChatLoopResumes

Spec == Init /\ [][Next]_vars

\* =================================================================== claims
\* The requests of the response being processed that are in tool_mapping.
AllResolve == \A k \in DOMAIN message.tool_calls :
                  message.tool_calls[k].name \in DOMAIN tool_mapping

\* The inference call after a tool-execution turn is about to be made.
TurnOver == pc = "awaiting_model" /\ inferences >= 1

\* C1: when call_tool raises for a resolvable request, the step that made the
\* call appends a tool-role message for that request to the conversation and
\* goes on to the next request or the next inference call; no exception
\* leaves process_query.
C1_ToolFailureIsCaptured ==
    [][ (Len(callLog') = Len(callLog) + 1 /\ callLog'[Len(callLog')].raised)
        => /\ pc' \in {"loop", "awaiting_model"}
           /\ Len(messages') > Len(messages)
           /\ messages'[Len(messages')].role = "tool"
           /\ messages'[Len(messages')].tool_call_id = callLog'[Len(callLog')].request.id
      ]_vars

\* C2: the loop of process_query stops by itself after a bounded number of
\* turns, however often the model requests tool calls: the number of
\* tool-execution turns a query runs stays below the number of turns the model
\* is let to request here.
C2_LoopIsBounded == (pc = "loop" /\ message.tool_calls # <<>>) => turns < MaxTurns

\* C3: after the initialization of a new client over all servers, tool_mapping
\* has as many entries as the servers advertised tools in total, and each
\* advertised tool of server i is found under serverId_name, mapped to the
\* session of server i and its original name.
RECURSIVE TotalTools(_)
TotalTools(i) == IF i >= NumServers THEN 0 ELSE Len(advertised[i]) + TotalTools(i + 1)

C3_Namespace ==
    (runs = 1 /\ completed = 1) =>
        /\ DOMAIN advertised = Servers
        /\ Cardinality(DOMAIN tool_mapping) = TotalTools(0)
        /\ \A i \in Servers : \A k \in DOMAIN advertised[i] :
               LET key == ("server" \o ToString(i)) \o "_" \o advertised[i][k]
               IN /\ key \in DOMAIN tool_mapping
                  /\ tool_mapping[key] = << sessions["server" \o ToString(i)], advertised[i][k] >>
                  /\ tool_mapping[key][1].server = i
                  /\ tool_mapping[key][1].kind = "session"

\* Two servers advertise get_weather and both entries are registered, to
\* different sessions.
C3_Witness ==
    /\ runs = 1 /\ completed = 1
    /\ \A i \in Servers : "get_weather" \in Range(advertised[i])
    /\ {"server0_get_weather", "server1_get_weather"} \subseteq DOMAIN tool_mapping
    /\ tool_mapping["server0_get_weather"][1] # tool_mapping["server1_get_weather"][1]

\* C4: when every request of a response resolves, then at the next inference
\* call exactly one call_tool invocation per request has been made and the
\* conversation has grown by two messages per request since the last call.
C4_ResolvableTurn ==
    (TurnOver /\ AllResolve) =>
        /\ turnCalls = Len(message.tool_calls)
        /\ Len(messages) = Len(sent) + 2 * Len(message.tool_calls)

\* A turn of two resolvable requests is over.
C4_Witness == TurnOver /\ AllResolve /\ Len(message.tool_calls) = 2 /\ turnCalls = 2

\* C5: a query whose first response has no tool calls returns after exactly
\* one inference call and no call_tool, and returns the response's content, or
\* the empty string when there is none.
C5_NoToolCalls ==
    (pc = "returned" /\ turns = 0) =>
        /\ inferences = 1
        /\ callLog = <<>>
        /\ outcome.kind = "returned"
        /\ outcome.value = (IF message.content = <<>> THEN "" ELSE message.content[1])

\* Such a query has returned the empty string for a response without content.
C5_Witness == pc = "returned" /\ turns = 0 /\ message.content = <<>> /\ outcome.value = ""

\* C6: a request whose name is not in tool_mapping is never given to
\* call_tool; the loop goes on to the requests after it, so that every request
\* of the turn has been processed when the next inference call is made; and the
\* returned text is the joined transcript, which holds the not-found note of
\* every such request.
C6_UnregisteredName ==
    /\ \A k \in DOMAIN callLog : callLog[k].request.name \in DOMAIN tool_mapping
    /\ \A k \in DOMAIN notFound : notFound[k].name \notin DOMAIN tool_mapping
    /\ TurnOver =>
           turnCalls + Cardinality({k \in DOMAIN notFound : notFound[k].turn = turns})
               = Len(message.tool_calls)
    /\ pc = "returned" =>
           /\ outcome.value = Join(final_text)
           /\ \A k \in DOMAIN notFound :
                  \E j \in DOMAIN final_text :
                      final_text[j] = "tool " \o notFound[k].name \o " not found"

\* A query has returned in which an unregistered request was followed by a
\* request that was dispatched.
C6_Witness ==
    /\ pc = "returned"
    /\ notFound # <<>>
    /\ callLog # <<>>
    /\ callLog[1].request = ReqA
    /\ notFound[1].name = ReqUnknown.name

\* C7: the not-found note of an unresolved request is appended to the
\* conversation messages too, so the next inference call is given a history
\* that differs from the one that produced the request.
C7_NotFoundReachesConversation ==
    TurnOver =>
        \A k \in DOMAIN notFound :
            notFound[k].turn = turns =>
                /\ messages # sent
                /\ \E j \in DOMAIN messages :
                       /\ j > Len(sent)
                       /\ "content" \in DOMAIN messages[j]
                       /\ messages[j].content = NotFoundNote(notFound[k].name)

\* C8: after cleanup every context entered during initialization has been
\* exited exactly once, in the reverse of the order of entry, also when
\* initialization failed part-way; before cleanup none has been exited and
\* every context entered is on the exit stack.
C8_ReleaseOrder ==
    /\ cleanups = 0 => (released = <<>> /\ exit_stack = acquired)
    /\ cleanups >= 1 =>
           /\ exit_stack = <<>>
           /\ Len(released) = Len(acquired)
           /\ \A k \in DOMAIN released : released[k] = acquired[Len(acquired) + 1 - k]
           /\ \A j, k \in DOMAIN released : released[j] = released[k] => j = k

\* Initialization failed at server 1 after its connector was entered, and the
\* three contexts entered were exited: connector 1, session 0, connector 0.
C8_Witness ==
    /\ cleanups = 1
    /\ completed = 0
    /\ Len(released) = 3
    /\ released[1].server = 1 /\ released[1].kind = "transport"
    /\ released[2].kind = "session" /\ released[3].kind = "transport"

\* C9: a cleanup that follows a completed cleanup exits nothing, raises
\* nothing and changes nothing of the client.
C9_CleanupIdempotent ==
    [][ (cleanups >= 1 /\ cleanups' = cleanups + 1)
        => /\ released' = released
           /\ cleanupReleased' = <<>>
           /\ ~cleanupRaised'
           /\ <<sessions, tool_mapping, exit_stack, pc>>' = <<sessions, tool_mapping, exit_stack, pc>>
      ]_vars

\* A second cleanup was made on a client whose first cleanup exited contexts.
C9_Witness == cleanups = 2 /\ released # <<>> /\ cleanupReleased = <<>>

\* C10: no step changes an entry that tool_mapping already has: a name that
\* is registered again is refused, the existing entry stays.
C10_NoSilentOverwrite ==
    [][ \A key \in DOMAIN tool_mapping :
            key \in DOMAIN tool_mapping' /\ tool_mapping'[key] = tool_mapping[key]
      ]_vars

\* C11: the catalog given to every inference call of a query is the one
\* computed from what the sessions' providers advertise at that call.
C11_CatalogIsCurrent ==
    pc = "awaiting_model" => available_tools = CatalogFrom(0, sessions, tools)

\* C12: once an inference call of a query has raised, the exception has left
\* process_query: the query is over with that exception, and no step of
\* process_query (no tool call, no inference call) follows.
C12_InferenceFailurePropagates ==
    inferenceFailed =>
        /\ pc = "raised"
        /\ outcome = [kind |-> "raised", exception |-> "inference"]

\* The inference call after a tool-execution turn with a dispatched call raised.
C12_Witness == inferenceFailed /\ pc = "raised" /\ inferences = 2 /\ callLog # <<>>

\* C13: the requests of a response are processed in the order received, and
\* the value returned is the fragments joined by newlines in the order of
\* emission: the first response's content (or the empty string), then for each
\* turn the call note and tool result, or the not-found note, of each request
\* in request order, then the content of the response that follows the turn,
\* when it has one.
C13_Fragments(k) ==
    LET e == emitted[k]
        r == e.request
    IN CASE e.kind = "response" ->
                IF e.text # <<>> THEN << e.text[1] >>
                ELSE IF k = 1 THEN << "" >>
                ELSE <<>>
         [] e.kind = "call" ->
                << "[call tool " \o r.name \o " args: {'city': 'FZ'}]",
                   "tool result: [TextContent(type='text', text='sunny', annotations=None)]" >>
         [] e.kind = "not_found" -> << "tool " \o r.name \o " not found" >>
         [] OTHER -> <<>>

RECURSIVE C13_Transcript(_)
C13_Transcript(k) ==
    IF k > Len(emitted) THEN <<>> ELSE C13_Fragments(k) \o C13_Transcript(k + 1)

RECURSIVE C13_Lines(_)
C13_Lines(fragments) ==
    IF fragments = <<>> THEN ""
    ELSE IF Len(fragments) = 1 THEN fragments[1]
    ELSE fragments[1] \o "\n" \o C13_Lines(Tail(fragments))

C13_EmissionOrder ==
    /\ \A k \in DOMAIN emitted :
           emitted[k].kind = "response" =>
               \A j \in DOMAIN emitted[k].tool_calls :
                   k + j <= Len(emitted) =>
                       /\ emitted[k + j].kind # "response"
                       /\ emitted[k + j].request = emitted[k].tool_calls[j]
    /\ pc = "returned" => outcome.value = C13_Lines(C13_Transcript(1))

\* A query of two turns has returned; one turn held an unregistered request
\* followed by a dispatched one, and the last response had content.
C13_Witness ==
    /\ pc = "returned"
    /\ turns = 2
    /\ \E k \in DOMAIN emitted :
           emitted[k].kind = "response" /\ emitted[k].tool_calls = <<ReqUnknown, ReqA>>
    /\ emitted[Len(emitted)].text = << "hello" >>

\* C14: every request given to call_tool appends exactly two messages, the
\* assistant record of the call (name, arguments, the request's id) followed
\* by the tool record of its result with the same id, and no other step of a
\* turn appends a message.
C14_TwoRecordsPerCall ==
    [][ /\ Len(callLog') = Len(callLog) + 1 =>
               LET r == callLog'[Len(callLog')].request
               IN /\ Len(messages') = Len(messages) + 2
                  /\ SubSeq(messages', 1, Len(messages)) = messages
                  /\ messages'[Len(messages) + 1].role = "assistant"
                  /\ messages'[Len(messages) + 1].tool_calls[1].id = r.id
                  /\ messages'[Len(messages) + 1].tool_calls[1].function.name = r.name
                  /\ messages'[Len(messages) + 2].role = "tool"
                  /\ messages'[Len(messages) + 2].tool_call_id = r.id
        /\ (pc = "loop" /\ callLog' = callLog) => messages' = messages
      ]_vars

\* C15: a call_tool that raises is made once for its request, the session
\* stays registered, and the loop goes on to the request after it, which is
\* dispatched as usual.
C15_FailureIsNotFatal ==
    [][ (Len(callLog') > Len(callLog) /\ callLog'[Len(callLog')].raised)
        => /\ Len(callLog') = Len(callLog) + 1
           /\ sessions' = sessions
           /\ tool_mapping' = tool_mapping
           /\ call_i' = call_i + 1
           /\ pc' = (IF call_i = Len(message.tool_calls) THEN "awaiting_model" ELSE "loop")
      ]_vars

\* process_query is running or has just ended.
InQuery == pc \in {"awaiting_model", "loop", "returned", "raised"}

RECURSIVE C16_Dispatched(_)
\* The number of the running query's requests whose call returned.
C16_Dispatched(k) ==
    IF k = 0 THEN 0
    ELSE C16_Dispatched(k - 1) + (IF callLog[k].raised THEN 0 ELSE 1)

C16_OnlyThisQuery ==
    InQuery =>
        /\ messages # <<>>
        /\ messages[1] = [role |-> "user", content |-> Strip(input[1])]
        /\ Len(messages) = 1 + 2 * C16_Dispatched(Len(callLog))
        /\ \A k \in 2 .. Len(messages) :
               \E c \in DOMAIN callLog :
                   \/ /\ messages[k].role = "assistant"
                      /\ messages[k].tool_calls[1].id = callLog[c].request.id
                   \/ /\ messages[k].role = "tool"
                      /\ messages[k].tool_call_id = callLog[c].request.id
        /\ sent # <<>> =>
               /\ Len(sent) <= Len(messages)
               /\ sent = SubSeq(messages, 1, Len(sent))

\* A step of process_query: its entry from chat_loop or a step of its body.
C16_QueryStep ==
    \/ pc \in {"awaiting_model", "loop"}
    \/ pc = "ready" /\ pc' \in {"awaiting_model", "raised"}

\* C16: a query's conversation starts with the new user message alone and
\* holds, besides it, only the records of the requests this query
\* dispatched, so nothing of an earlier query is sent to the inference
\* service; and no step of process_query changes sessions or tool_mapping.
C16_QueriesAreIndependent ==
    [][ /\ C16_OnlyThisQuery'
        /\ C16_QueryStep => (sessions' = sessions /\ tool_mapping' = tool_mapping)
      ]_vars

C16_Witness ==
    /\ earlier
    /\ pc = "returned"
    /\ inferences = 2
    /\ Len(callLog) = 1
    /\ sent = InitialMessages("weather in FZ?") \o CallRecords(ReqA, [city |-> "FZ"], "sunny")

\* C17: each call_tool invocation is made on the session tool_mapping holds
\* for the requested prefixed name, with the original name of that entry,
\* which is the prefixed name without its "<server_id>_" prefix, and with the
\* parsed form of the request's argument text.
C17_DispatchedAsRegistered ==
    \A k \in DOMAIN callLog :
        LET c == callLog[k]
        IN /\ c.request.name \in DOMAIN tool_mapping
           /\ c.session = tool_mapping[c.request.name][1]
           /\ c.name = tool_mapping[c.request.name][2]
           /\ c.session.kind = "session"
           /\ c.request.name = "server" \o ToString(c.session.server) \o "_" \o c.name
           /\ c.request.arguments \in {"{\"city\":\"FZ\"}", "{\"city\": \"FZ\"}"}
           /\ c.args = [city |-> "FZ"]

C17_Witness ==
    /\ Len(callLog) = 2
    /\ callLog[1].request = ReqA /\ callLog[1].name = "get_weather"
    /\ callLog[2].request = ReqB /\ callLog[2].name = "get_weather"
    /\ callLog[1].session # callLog[2].session
    /\ ~callLog[2].raised

\* C18: every name of the catalog offered to the model is a key of
\* tool_mapping, and no name of the catalog is answered "not found", whatever
\* the providers' tool lists have become since the sessions were initialized.
C18_CatalogIsRegistered ==
    pc \in {"awaiting_model", "loop"} =>
        /\ \A k \in DOMAIN available_tools :
               /\ available_tools[k].name \in DOMAIN tool_mapping
               /\ \A i \in Servers, t \in {"get_weather", "get_alerts"} :
                      available_tools[k].name = "server" \o ToString(i) \o "_" \o t
                          => tool_mapping[available_tools[k].name][1]
                                 = sessions["server" \o ToString(i)]
        /\ \A n \in DOMAIN notFound :
               \A k \in DOMAIN available_tools :
                   available_tools[k].name # notFound[n].name

\* C19: an exception leaves process_query after its first inference call has
\* been made only when an inference call failed.
C19_OnlyInferenceRaises ==
    (pc = "raised" /\ inferences >= 1) =>
        outcome = [kind |-> "raised", exception |-> "inference"]

\* C20: while a query is being processed chat_loop reads no line; when the
\* query has returned or raised, chat_loop's next step is to prompt again;
\* a line read ends chat_loop exactly when it is quit up to surrounding
\* blanks and letter case, and is given to process_query otherwise; and the
\* step after the end of chat_loop is cleanup.
C20_ChatLoop ==
    [][ /\ pc \in {"awaiting_model", "loop"} => (input' = input /\ InQuery')
        /\ pc \in {"returned", "raised"} => (pc' = "ready" /\ input' = <<>>)
        /\ (pc = "ready" /\ input' # <<>>) =>
               IF input'[1] \in {"quit", " QUIT "}
               THEN pc' = "chat_ended"
               ELSE pc' \in {"awaiting_model", "raised"}
        /\ pc = "chat_ended" =>
               (pc' = "closed" /\ cleanups' = cleanups + 1 /\ exit_stack' = <<>>)
      ]_vars

C20_Witness ==
    /\ pc = "closed"
    /\ input = << " QUIT " >>
    /\ earlier
    /\ cleanups = 1
    /\ released # <<>>
====
